---- MODULE Spec2Model ----
(***************************************************************************)
(* img2bag: conversion of image directories into a ROS 2 bag.              *)
(*                                                                         *)
(* The model follows one run of main() (src/img2bag/__main__.py) through   *)
(* argument parsing, construction and configuration of Img2BagConverter    *)
(* and Img2BagConverter.convert() (src/img2bag/img2bag_converter.py).      *)
(*                                                                         *)
(* Strings are sequences of one-character strings, so "/a/b" is            *)
(* <<"/", "a", "/", "b">>.  A Python float is modelled by its exact value  *)
(* (a rational); the rounding of IEEE doubles is not modelled.  The bag    *)
(* timestamp int(sec * 1e9 + nsec) is kept as the pair <<sec, nsec>>.      *)
(*                                                                         *)
(* Spec is the run of main().  In Spec a directory is given by its files   *)
(* in the order natsorted puts them in; EnumSpec looks at that step alone: *)
(* the listing of a directory in any order, then natsorted.                *)
(***************************************************************************)
EXTENDS Integers, Sequences, FiniteSets, TLC

\* ------------------------------------------------------------------------
\* Bounds of the model
\* ------------------------------------------------------------------------
MaxFiles == 3       \* files per directory in the single-directory runs
MaxPairFiles == 2   \* files per directory in the two-directory runs
MaxTopicLen == 3    \* characters of a topic or camera-info-topic argument
MaxSizeLen == 3     \* characters of an --image-size argument
MaxListing == 3     \* files of the directory the enumerator is run on

\* ------------------------------------------------------------------------
\* Sequences and strings
\* ------------------------------------------------------------------------
RECURSIVE SeqsUpTo(_, _)
SeqsUpTo(S, n) ==
    IF n = 0 THEN {<<>>}
    ELSE LET shorter == SeqsUpTo(S, n - 1)
         IN  shorter \cup {Append(s, x) : s \in {t \in shorter : Len(t) = n - 1}, x \in S}

Range(s) == {s[i] : i \in 1..Len(s)}

\* str.lstrip('/')
RECURSIVE LStripSlash(_)
LStripSlash(s) ==
    IF s # <<>> /\ Head(s) = "/" THEN LStripSlash(Tail(s)) ELSE s

\* str.rstrip('/')
RECURSIVE RStripSlash(_)
RStripSlash(s) ==
    IF s # <<>> /\ s[Len(s)] = "/" THEN RStripSlash(SubSeq(s, 1, Len(s) - 1)) ELSE s

\* str.strip('/')
StripSlash(s) == RStripSlash(LStripSlash(s))

\* re.split on a character class / str.split: the segments between
\* separators, empty ones included
RECURSIVE SplitOn(_, _)
SplitOn(s, seps) ==
    IF \A i \in 1..Len(s) : s[i] \notin seps THEN <<s>>
    ELSE LET i == CHOOSE k \in 1..Len(s) :
                      s[k] \in seps /\ \A j \in 1..(k - 1) : s[j] \notin seps
         IN  <<SubSeq(s, 1, i - 1)>> \o SplitOn(SubSeq(s, i + 1, Len(s)), seps)

\* str.split('/')
SplitSlash(s) == SplitOn(s, {"/"})

\* '/'.join(parts)
RECURSIVE JoinSlash(_)
JoinSlash(parts) ==
    IF parts = <<>> THEN <<>>
    ELSE IF Len(parts) = 1 THEN parts[1]
    ELSE parts[1] \o <<"/">> \o JoinSlash(Tail(parts))

\* str(PurePath(*args)) on POSIX: an argument that starts with '/' discards
\* the arguments before it; empty and '.' components are dropped; exactly two
\* leading slashes are kept as the root '//', any other number is the root '/';
\* the empty path is '.'.
PurePathStr(args) ==
    LET abs    == {i \in 1..Len(args) : args[i] # <<>> /\ args[i][1] = "/"}
        from   == IF abs = {} THEN 1 ELSE CHOOSE i \in abs : \A j \in abs : j <= i
        kept   == SubSeq(args, from, Len(args))
        joined == JoinSlash(kept)
        lead   == Len(joined) - Len(LStripSlash(joined))
        root   == IF lead = 0 THEN <<>> ELSE IF lead = 2 THEN <<"/", "/">> ELSE <<"/">>
        parts  == SelectSeq(SplitSlash(joined), LAMBDA p : p # <<>> /\ p # <<".">>)
    IN  IF root = <<>> /\ parts = <<>> THEN <<".">> ELSE root \o JoinSlash(parts)

\* utils.get_frame_id_from_topic
get_frame_id_from_topic(topic) ==
    LET all         == SplitSlash(StripSlash(topic))
        topic_parts == SubSeq(all, 1, Len(all) - 1)
    IN  IF topic_parts = <<>> THEN PurePathStr(all) ELSE PurePathStr(topic_parts)

\* ------------------------------------------------------------------------
\* Timestamps.  A float time is the record [s |-> whole seconds, n |-> whole
\* nanoseconds on top of them]; n may be 1e9 or more before it is split, and
\* the part below one nanosecond, which int() discards, is not kept.
\* A rate is <<num, den>>, the frequency num/den Hz.
\* ------------------------------------------------------------------------
NsPerSec == 1000000000

\* split_unix_timestamp without the carry of the nanoseconds into the seconds
split_unix_timestamp_no_carry(t) == <<t.s, t.n % NsPerSec>>

\* utils.split_unix_timestamp: sec = int(timestamp),
\* nsec = int((timestamp * 1e9) % 1e9)
split_unix_timestamp(t) == <<t.s + (t.n \div NsPerSec), t.n % NsPerSec>>

\* 1 / rate, in whole seconds and whole nanoseconds (rounded down)
Period(rate) ==
    LET num == rate[1]
        den == rate[2]
    IN  [s |-> den \div num, n |-> ((den % num) * NsPerSec) \div num]

\* (sec + 1 / self._rate) + nsec * 1e-9
NextTime(sec, nsec, rate) ==
    [s |-> sec + Period(rate).s, n |-> nsec + Period(rate).n]

\* abs(value) of the rate setter
AbsRate(rate) == <<IF rate[1] < 0 THEN -rate[1] ELSE rate[1], rate[2]>>

\* ------------------------------------------------------------------------
\* Command-line value types
\* ------------------------------------------------------------------------
Digits == {"0", "1", "2", "3", "4", "5", "6", "7", "8", "9"}
\* the letters the strings of the model are made of
Letters == {"a", "b", "c"}

IsDigits(s) == s # <<>> /\ \A i \in 1..Len(s) : s[i] \in Digits

\* CameraInfoTopicType: ^[A-Za-z/_]+$
CameraInfoTopicType(s) ==
    s # <<>> /\ \A i \in 1..Len(s) : s[i] \in Letters \cup {"/", "_"}

\* ImageSizeType: ^(?!0$)(?!0[x,])\d+(?:[x,](?!0$)\d+)?$
ImageSizeType(s) ==
    /\ s # <<"0">>
    /\ ~(Len(s) >= 2 /\ s[1] = "0" /\ s[2] \in {"x", ","})
    /\ \/ IsDigits(s)
       \/ \E i \in 1..Len(s) :
             /\ s[i] \in {"x", ","}
             /\ IsDigits(SubSeq(s, 1, i - 1))
             /\ IsDigits(SubSeq(s, i + 1, Len(s)))
             /\ SubSeq(s, i + 1, Len(s)) # <<"0">>

DigitVal(c) ==
    CASE c = "0" -> 0 [] c = "1" -> 1 [] c = "2" -> 2 [] c = "3" -> 3 [] c = "4" -> 4
      [] c = "5" -> 5 [] c = "6" -> 6 [] c = "7" -> 7 [] c = "8" -> 8 [] c = "9" -> 9

\* int(s) of a string of digits
RECURSIVE ToInt(_)
ToInt(s) ==
    IF s = <<>> THEN 0 ELSE 10 * ToInt(SubSeq(s, 1, Len(s) - 1)) + DigitVal(s[Len(s)])

\* __main__._parse_image_size; None is <<>>
parse_image_size(image_size) ==
    IF image_size = <<>> THEN <<>>
    ELSE LET parts == SplitOn(image_size, {"x", ","})
             size  == [i \in 1..Len(parts) |-> ToInt(parts[i])]
         IN  IF Len(size) = 1 THEN <<size[1], 0>> ELSE SubSeq(size, 1, 2)

\* utils.resize_image: the size handed to image.resize
resize_image(image_size, size) ==
    IF size[1] <= 0
        THEN <<(image_size[1] * size[2]) \div image_size[2], size[2]>>
    ELSE IF size[2] <= 0
        THEN <<size[1], (image_size[2] * size[1]) \div image_size[1]>>
    ELSE size

\* ------------------------------------------------------------------------
\* Inputs of a run: the command line and the file system
\* ------------------------------------------------------------------------
\* An image file: what PILImage.open and decoding do with it, its pixel mode
\* and its (width, height)
ImgRGB    == [res |-> "ok", mode |-> "RGB", size |-> <<4, 2>>]
ImgL      == [res |-> "ok", mode |-> "L", size |-> <<4, 1>>]
ImgP      == [res |-> "ok", mode |-> "P", size |-> <<2, 4>>]
BadOS     == [res |-> "OSError", mode |-> "", size |-> <<0, 0>>]
BadSyntax == [res |-> "SyntaxError", mode |-> "", size |-> <<0, 0>>]
BadOther  == [res |-> "Exception", mode |-> "", size |-> <<0, 0>>]

FileKinds == {ImgRGB, ImgL, ImgP, BadOS, BadSyntax, BadOther}
PairFileKinds == {ImgRGB, ImgP, BadOS, BadOther}

Dir(exists, files) == [exists |-> exists, files |-> files]

ValidRates == {<<1, 1>>, <<3, 1>>, <<3, 2>>, <<1, 2>>, <<7, 1>>, <<2000000000, 1>>}
Rates == ValidRates \cup {<<0, 1>>, <<-1, 1>>}
Timestamps == {0, 1, 2}

TopicChars == {"/", "a", "b"}
CitChars == {"/", "c", "1"}
SizeChars == {"0", "2", "x", ","}

TopicStrs == SeqsUpTo(TopicChars, MaxTopicLen)
CitStrs == SeqsUpTo(CitChars, MaxTopicLen)
SizeStrs == SeqsUpTo(SizeChars, MaxSizeLen)

DefaultTopic == <<"/", "a", "/", "b">>
DefaultCit == <<"c">>

Config(dirs, topics, cit, size, ts, rate, out) ==
    [directories |-> dirs, topics |-> topics, camera_info_topic |-> cit,
     image_size |-> size, timestamp |-> ts, rate |-> rate, output_ok |-> out]

\* one directory, every sequence of files, every valid rate and start time
RunConfigs ==
    {Config(<<Dir(TRUE, fs)>>, <<DefaultTopic>>, DefaultCit, <<>>, ts, r, TRUE) :
        fs \in SeqsUpTo(FileKinds, MaxFiles), ts \in {1, 2}, r \in ValidRates}

\* two directories
PairConfigs ==
    {Config(<<Dir(TRUE, f1), Dir(TRUE, f2)>>, <<DefaultTopic, <<"/", "b">> >>,
            DefaultCit, <<>>, 1, r, TRUE) :
        f1 \in SeqsUpTo(PairFileKinds, MaxPairFiles),
        f2 \in SeqsUpTo(PairFileKinds, MaxPairFiles), r \in {<<1, 1>>, <<3, 1>>}}

\* the arguments the parser and the count check decide on
ArgConfigs ==
    {Config(ds, ts, DefaultCit, <<>>, t, r, o) :
        ds \in SeqsUpTo({Dir(TRUE, <<ImgRGB>>), Dir(FALSE, <<>>)}, 2),
        ts \in SeqsUpTo({DefaultTopic}, 3),
        t \in Timestamps, r \in Rates, o \in BOOLEAN}

\* the --image-size argument
SizeConfigs ==
    {Config(<<Dir(TRUE, fs)>>, <<DefaultTopic>>, DefaultCit, sz, 1, <<1, 1>>, TRUE) :
        fs \in {<<ImgRGB, ImgL>>, <<ImgP, ImgRGB>>, <<BadOS>>}, sz \in SizeStrs}

\* the topic and the camera-info topic
TopicConfigs ==
    {Config(<<Dir(TRUE, <<ImgRGB>>)>>, <<t>>, c, <<>>, 1, <<1, 1>>, TRUE) :
        t \in TopicStrs, c \in CitStrs}
    \cup
    {Config(<<Dir(TRUE, <<ImgRGB>>), Dir(TRUE, <<ImgRGB>>)>>, <<t1, t2>>, DefaultCit,
            <<>>, 1, <<1, 1>>, TRUE) :
        t1 \in TopicStrs, t2 \in TopicStrs}

Configs == RunConfigs \cup PairConfigs \cup ArgConfigs \cup SizeConfigs \cup TopicConfigs

\* ------------------------------------------------------------------------
\* State
\* ------------------------------------------------------------------------
VARIABLES
    cfg,          \* the command line and the file system of this run
    pc,           \* where main() is
    exitCode,     \* the process exit code, -1 while running
    err,          \* what ended the run: "" or the exception
    pairs,        \* Img2BagConverter._image_topic_pairs
    imgsz,        \* Img2BagConverter._imgsz, <<>> for None
    start,        \* Img2BagConverter._start_timestamp
    rate,         \* Img2BagConverter._rate
    camera_info_topic,  \* Img2BagConverter._camera_info_topic
    writer,       \* Img2BagConverter._rosbag_writer: "none", "open", "released"
    releases,     \* how often convert() released the writer
    created,      \* the names passed to create_topic, in call order
    written,      \* the records passed to write, in call order
    pairIdx,      \* the pair the loop of convert() is at
    fileIdx,      \* the file the loop of _convert_image_to_topic is at
    image_files,  \* the sorted files of the current directory
    frame_id, image_topic_name, camera_info_topic_name,
    sec, nsec,    \* the timestamp cursor of _convert_image_to_topic
    fsLog,        \* the file system accesses, in order
    resizeCalls,  \* the size arguments resize_image was called with
    dir_entries,  \* the enumerator alone: the file names of image_dir
    listed,       \* those names in the order the directory listing returned them
    enumerated,   \* the orders natsorted has put them in, over all listings so far
    enumPc        \* where the enumerator is: "off", "list" or "sort"

vars == <<cfg, pc, exitCode, err, pairs, imgsz, start, rate, camera_info_topic,
          writer, releases, created, written, pairIdx, fileIdx, image_files,
          frame_id, image_topic_name, camera_info_topic_name, sec, nsec,
          fsLog, resizeCalls, dir_entries, listed, enumerated, enumPc>>

converterVars == <<pairs, imgsz, start, rate, camera_info_topic>>
topicVars == <<frame_id, image_topic_name, camera_info_topic_name>>
loopVars == <<pairIdx, fileIdx, image_files, sec, nsec>>
enumVars == <<dir_entries, listed, enumerated, enumPc>>

Init ==
    /\ cfg \in Configs
    /\ pc = "parse"
    /\ exitCode = -1
    /\ err = ""
    /\ pairs = <<>>
    /\ imgsz = <<>>
    /\ start = 0
    /\ rate = <<1, 1>>
    /\ camera_info_topic = <<>>
    /\ writer = "none"
    /\ releases = 0
    /\ created = <<>>
    /\ written = <<>>
    /\ pairIdx = 0
    /\ fileIdx = 0
    /\ image_files = <<>>
    /\ frame_id = <<>>
    /\ image_topic_name = <<>>
    /\ camera_info_topic_name = <<>>
    /\ sec = 0
    /\ nsec = 0
    /\ fsLog = <<>>
    /\ resizeCalls = <<>>
    /\ dir_entries = {}
    /\ listed = <<>>
    /\ enumerated = {}
    /\ enumPc = "off"

\* ------------------------------------------------------------------------
\* main(): argument parsing and configuration
\* ------------------------------------------------------------------------
\* The values parser.parse_args() checks, in the order of their declaration;
\* the path types look at the file system.
ArgChecks ==
    [i \in 1..Len(cfg.directories) |->
        [fs |-> <<"is_dir", i>>, ok |-> cfg.directories[i].exists]]
    \o << [fs |-> <<>>, ok |-> CameraInfoTopicType(cfg.camera_info_topic)],
          [fs |-> <<>>, ok |-> cfg.image_size = <<>> \/ ImageSizeType(cfg.image_size)],
          [fs |-> <<>>, ok |-> cfg.timestamp > 0],
          [fs |-> <<>>, ok |-> cfg.rate[1] > 0],
          [fs |-> <<"creatable">>, ok |-> cfg.output_ok] >>

ParserAccepts == \A i \in 1..Len(ArgChecks) : ArgChecks[i].ok

\* the checks made up to and including the first value that is rejected
ChecksDone ==
    LET bad  == {i \in 1..Len(ArgChecks) : ~ArgChecks[i].ok}
        last == IF bad = {} THEN Len(ArgChecks)
                ELSE CHOOSE i \in bad : \A j \in bad : i <= j
        done == SubSeq(ArgChecks, 1, last)
    IN  [i \in 1..Len(SelectSeq(done, LAMBDA c : c.fs # <<>>)) |->
            SelectSeq(done, LAMBDA c : c.fs # <<>>)[i].fs]

\* sys.exit of the parser: SystemExit is no Exception, main() does not catch it
ParserExitCode == 2

\* _parse_arguments
ParseArguments ==
    /\ pc = "parse"
    /\ UNCHANGED enumVars
    /\ fsLog' = fsLog \o ChecksDone
    /\ IF ParserAccepts
          THEN /\ pc' = "pairs"
               /\ UNCHANGED <<exitCode, err>>
          ELSE /\ pc' = "exit"
               /\ exitCode' = ParserExitCode
               /\ err' = "SystemExit"
    /\ UNCHANGED <<cfg, converterVars, writer, releases, created, written,
                   loopVars, topicVars, resizeCalls>>

\* ParseImageTopicPairs without the comparison of the two lengths: zip() stops
\* at the shorter list
ParseImageTopicPairsUnchecked ==
    /\ pc = "pairs"
    /\ UNCHANGED enumVars
    /\ pc' = "configure"
    /\ pairs' = [i \in 1..(IF Len(cfg.topics) < Len(cfg.directories)
                            THEN Len(cfg.topics) ELSE Len(cfg.directories)) |->
                    <<i, cfg.topics[i]>>]
    /\ imgsz' = <<>>
    /\ rate' = <<1, 1>>
    /\ camera_info_topic' = <<"c", "a", "m", "e", "r", "a", "_", "i", "n", "f", "o">>
    /\ UNCHANGED <<cfg, start, exitCode, err, writer, releases, created, written,
                   loopVars, topicVars, fsLog, resizeCalls>>

\* _parse_image_topic_pairs and Img2BagConverter.__init__
ParseImageTopicPairs ==
    /\ pc = "pairs"
    /\ UNCHANGED enumVars
    /\ IF Len(cfg.directories) # Len(cfg.topics)
          THEN /\ pc' = "exit"
               /\ exitCode' = 1
               /\ err' = "ValueError"
               /\ UNCHANGED converterVars
          ELSE /\ pc' = "configure"
               /\ pairs' = [i \in 1..Len(cfg.topics) |-> <<i, cfg.topics[i]>>]
               /\ imgsz' = <<>>
               /\ rate' = <<1, 1>>
               /\ camera_info_topic' = <<"c", "a", "m", "e", "r", "a", "_", "i", "n", "f", "o">>
               /\ UNCHANGED <<start, exitCode, err>>
    /\ UNCHANGED <<cfg, writer, releases, created, written, loopVars, topicVars,
                   fsLog, resizeCalls>>

\* the setters main() calls
Configure ==
    /\ pc = "configure"
    /\ UNCHANGED enumVars
    /\ imgsz' = parse_image_size(cfg.image_size)
    /\ start' = cfg.timestamp
    /\ rate' = AbsRate(cfg.rate)
    /\ camera_info_topic' = cfg.camera_info_topic
    /\ pc' = "convert"
    /\ UNCHANGED <<cfg, exitCode, err, pairs, writer, releases, created, written,
                   loopVars, topicVars, fsLog, resizeCalls>>

\* ------------------------------------------------------------------------
\* Img2BagConverter.convert
\* ------------------------------------------------------------------------
\* where the loops go after the file at index i of the current directory
AfterFile(i, files) ==
    IF i < Len(files) THEN "file"
    ELSE IF pairIdx < Len(pairs) THEN "register"
    ELSE "finish"

\* SequentialWriter() and its open()
OpenWriter ==
    /\ pc = "convert"
    /\ UNCHANGED enumVars
    /\ writer' = "open"
    /\ pairIdx' = 1
    /\ pc' = IF pairs = <<>> THEN "finish" ELSE "register"
    /\ UNCHANGED <<cfg, exitCode, err, converterVars, releases, created, written,
                   fileIdx, image_files, sec, nsec, topicVars, fsLog, resizeCalls>>

\* open() raises: the storage backend cannot create the bag
OpenWriterFails ==
    /\ pc = "convert"
    /\ UNCHANGED enumVars
    /\ pc' = "exit"
    /\ exitCode' = 1
    /\ err' = "RuntimeError"
    /\ UNCHANGED <<cfg, converterVars, writer, releases, created, written, loopVars,
                   topicVars, fsLog, resizeCalls>>

\* the channel names of _register_topics
ImageTopicName(img_topic) == <<"/">> \o LStripSlash(img_topic)
CameraInfoTopicName(fid) == PurePathStr(<< <<"/">> \o fid, camera_info_topic >>)

\* _register_topics and the listing, with one cursor for all pairs: only the
\* first pair starts at the start time
RegisterTopicsSharedCursor ==
    /\ pc = "register"
    /\ UNCHANGED enumVars
    /\ LET topic == pairs[pairIdx][2]
           dir   == cfg.directories[pairs[pairIdx][1]]
           fid   == get_frame_id_from_topic(topic)
           t0    == split_unix_timestamp([s |-> start, n |-> 0])
       IN  /\ frame_id' = fid
           /\ image_topic_name' = ImageTopicName(topic)
           /\ camera_info_topic_name' = CameraInfoTopicName(fid)
           /\ created' = created \o <<ImageTopicName(topic), CameraInfoTopicName(fid)>>
           /\ sec' = IF pairIdx = 1 THEN t0[1] ELSE sec
           /\ nsec' = IF pairIdx = 1 THEN t0[2] ELSE nsec
           /\ image_files' = dir.files
           /\ fsLog' = Append(fsLog, <<"iterdir", pairs[pairIdx][1]>>)
           /\ fileIdx' = 1
           /\ pc' = AfterFile(0, dir.files)
           /\ pairIdx' = IF dir.files = <<>> /\ pairIdx < Len(pairs)
                            THEN pairIdx + 1 ELSE pairIdx
    /\ UNCHANGED <<cfg, exitCode, err, converterVars, writer, releases, written,
                   resizeCalls>>

\* _convert_image_to_topic up to its loop: the frame id, _register_topics,
\* the cursor and the sorted listing of the directory
RegisterTopics ==
    /\ pc = "register"
    /\ UNCHANGED enumVars
    /\ LET topic == pairs[pairIdx][2]
           dir   == cfg.directories[pairs[pairIdx][1]]
           fid   == get_frame_id_from_topic(topic)
           t0    == split_unix_timestamp([s |-> start, n |-> 0])
       IN  /\ frame_id' = fid
           /\ image_topic_name' = ImageTopicName(topic)
           /\ camera_info_topic_name' = CameraInfoTopicName(fid)
           /\ created' = created \o <<ImageTopicName(topic), CameraInfoTopicName(fid)>>
           /\ sec' = t0[1]
           /\ nsec' = t0[2]
           /\ image_files' = dir.files
           /\ fsLog' = Append(fsLog, <<"iterdir", pairs[pairIdx][1]>>)
           /\ fileIdx' = 1
           /\ pc' = AfterFile(0, dir.files)
           /\ pairIdx' = IF dir.files = <<>> /\ pairIdx < Len(pairs)
                            THEN pairIdx + 1 ELSE pairIdx
    /\ UNCHANGED <<cfg, exitCode, err, converterVars, writer, releases, written,
                   resizeCalls>>

\* the pixel modes of image_encoding_map
SupportedModes == {"RGB", "RGBA", "L"}

\* _create_image_camera_info_messages on a file: the exception it raises
\* ("" for none), whether resize_image was called, and the image size after
\* it.  Image.resize raises ValueError for a size with a component below 1.
CreateMessages(file) ==
    LET resized == imgsz # <<>>
        size    == IF resized THEN resize_image(file.size, imgsz) ELSE file.size
    IN  IF file.res # "ok"
            THEN [raised |-> file.res, resized |-> FALSE, size |-> file.size]
        ELSE IF resized /\ (size[1] < 1 \/ size[2] < 1)
            THEN [raised |-> "ValueError", resized |-> TRUE, size |-> size]
        ELSE IF file.mode \notin SupportedModes
            THEN [raised |-> "UserWarning", resized |-> resized, size |-> size]
        ELSE [raised |-> "", resized |-> resized, size |-> size]

\* the exceptions the loop of _convert_image_to_topic catches
Recoverable == {"OSError", "SyntaxError", "UserWarning"}

\* what every pass of the loop does before the messages are used
OpenFile(out) ==
    /\ fsLog' = Append(fsLog, <<"open", pairs[pairIdx][1], fileIdx>>)
    /\ resizeCalls' = IF out.resized THEN Append(resizeCalls, imgsz) ELSE resizeCalls

\* the loop goes on with the next file, the next pair or the end of convert()
NextFile ==
    /\ pc' = AfterFile(fileIdx, image_files)
    /\ fileIdx' = IF fileIdx < Len(image_files) THEN fileIdx + 1 ELSE fileIdx
    /\ pairIdx' = IF fileIdx >= Len(image_files) /\ pairIdx < Len(pairs)
                     THEN pairIdx + 1 ELSE pairIdx

\* A float of the calibration is the fraction <<numerator, denominator>> in
\* lowest terms.
RECURSIVE GCD(_, _)
GCD(a, b) == IF b = 0 THEN a ELSE GCD(b, a % b)

Frac(a, b) == <<a \div GCD(a, b), b \div GCD(a, b)>>

\* x / y of two floats
FracDiv(x, y) == Frac(x[1] * y[2], x[2] * y[1])

\* utils.get_flatten_calibration_matrices with focal_y = width / aspect_ratio
get_flatten_calibration_matrices_width_over_aspect(size) ==
    LET zero == Frac(0, 1)
        one  == Frac(1, 1)
        aspect_ratio == FracDiv(Frac(size[2], 1), Frac(size[1], 1))
        K == <<Frac(size[1], 1), zero, FracDiv(Frac(size[1], 1), Frac(2, 1)),
               zero, FracDiv(Frac(size[1], 1), aspect_ratio),
                     FracDiv(Frac(size[2], 1), Frac(2, 1)),
               zero, zero, one>>
    IN  [d |-> <<zero, zero, zero, zero, zero>>,
         k |-> K,
         r |-> <<one, zero, zero, zero, one, zero, zero, zero, one>>,
         p |-> <<K[1], K[2], K[3], zero, K[4], K[5], K[6], zero, K[7], K[8], K[9], zero>>]

\* utils.get_flatten_calibration_matrices: distortion, intrinsic, rotation
\* and projection matrix, each flattened row by row
get_flatten_calibration_matrices(size) ==
    LET zero == Frac(0, 1)
        one  == Frac(1, 1)
        aspect_ratio == FracDiv(Frac(size[2], 1), Frac(size[1], 1))
        K == <<Frac(size[1], 1), zero, FracDiv(Frac(size[1], 1), Frac(2, 1)),
               zero, FracDiv(Frac(size[2], 1), aspect_ratio),
                     FracDiv(Frac(size[2], 1), Frac(2, 1)),
               zero, zero, one>>
    IN  [d |-> <<zero, zero, zero, zero, zero>>,
         k |-> K,
         r |-> <<one, zero, zero, zero, one, zero, zero, zero, one>>,
         p |-> <<K[1], K[2], K[3], zero, K[4], K[5], K[6], zero, K[7], K[8], K[9], zero>>]

\* a record passed to write; a CameraInfo record carries the calibration of
\* the image's size
Record(topic, kind, size) ==
    [topic |-> topic, kind |-> kind, stamp |-> <<sec, nsec>>, frame_id |-> frame_id,
     size |-> size, pair |-> pairIdx, file |-> fileIdx,
     calibration |-> IF kind = "CameraInfo" THEN get_flatten_calibration_matrices(size)
                     ELSE <<>>]

\* one pass of the loop on a file that is written: both records, then the
\* cursor moves on by 1 / rate
WriteFile ==
    /\ pc = "file"
    /\ UNCHANGED enumVars
    /\ LET out == CreateMessages(image_files[fileIdx])
           t   == split_unix_timestamp(NextTime(sec, nsec, rate))
       IN  /\ out.raised = ""
           /\ OpenFile(out)
           /\ written' = written \o
                 <<Record(image_topic_name, "Image", out.size),
                   Record(camera_info_topic_name, "CameraInfo", out.size)>>
           /\ sec' = t[1]
           /\ nsec' = t[2]
    /\ NextFile
    /\ UNCHANGED <<cfg, exitCode, err, converterVars, writer, releases, created,
                   image_files, topicVars>>

\* SkipFile with the cursor moved on as for a written file
SkipFileAdvances ==
    /\ pc = "file"
    /\ UNCHANGED enumVars
    /\ LET out == CreateMessages(image_files[fileIdx])
           t   == split_unix_timestamp(NextTime(sec, nsec, rate))
       IN  /\ out.raised \in Recoverable
           /\ OpenFile(out)
           /\ sec' = t[1]
           /\ nsec' = t[2]
    /\ NextFile
    /\ UNCHANGED <<cfg, exitCode, err, converterVars, writer, releases, created,
                   written, image_files, topicVars>>

\* SkipFile with the loop left (break) instead of continued
SkipFileBreaks ==
    /\ pc = "file"
    /\ UNCHANGED enumVars
    /\ LET out == CreateMessages(image_files[fileIdx])
       IN  /\ out.raised \in Recoverable
           /\ OpenFile(out)
    /\ pc' = IF pairIdx < Len(pairs) THEN "register" ELSE "finish"
    /\ pairIdx' = IF pairIdx < Len(pairs) THEN pairIdx + 1 ELSE pairIdx
    /\ UNCHANGED <<cfg, exitCode, err, converterVars, writer, releases, created,
                   written, fileIdx, image_files, sec, nsec, topicVars>>

\* one pass of the loop on a file whose exception is caught: continue
SkipFile ==
    /\ pc = "file"
    /\ UNCHANGED enumVars
    /\ LET out == CreateMessages(image_files[fileIdx])
       IN  /\ out.raised \in Recoverable
           /\ OpenFile(out)
    /\ NextFile
    /\ UNCHANGED <<cfg, exitCode, err, converterVars, writer, releases, created,
                   written, image_files, sec, nsec, topicVars>>

\* one pass of the loop on a file whose exception is not caught: it leaves
\* convert() and main() reports it
FailFile ==
    /\ pc = "file"
    /\ UNCHANGED enumVars
    /\ LET out == CreateMessages(image_files[fileIdx])
       IN  /\ out.raised \notin Recoverable \cup {""}
           /\ OpenFile(out)
           /\ err' = out.raised
    /\ pc' = "exit"
    /\ exitCode' = 1
    /\ UNCHANGED <<cfg, converterVars, writer, releases, created, written, loopVars,
                   topicVars>>

\* the end of convert(): del self._rosbag_writer, and main() returns 0
Finish ==
    /\ pc = "finish"
    /\ UNCHANGED enumVars
    /\ writer' = "released"
    /\ releases' = releases + 1
    /\ pc' = "exit"
    /\ exitCode' = 0
    /\ UNCHANGED <<cfg, err, converterVars, created, written, loopVars, topicVars,
                   fsLog, resizeCalls>>

\* Interrupt with the writer released on the way out (a finally clause)
InterruptReleases ==
    /\ pc # "exit"
    /\ UNCHANGED enumVars
    /\ pc' = "exit"
    /\ exitCode' = 1
    /\ err' = "KeyboardInterrupt"
    /\ writer' = IF writer = "open" THEN "released" ELSE writer
    /\ releases' = IF writer = "open" THEN releases + 1 ELSE releases
    /\ UNCHANGED <<cfg, converterVars, created, written, loopVars, topicVars, fsLog,
                   resizeCalls>>

\* Interrupt without the except clause of main(): the interpreter's exit code
InterruptUncaught ==
    /\ pc # "exit"
    /\ UNCHANGED enumVars
    /\ pc' = "exit"
    /\ exitCode' = 130
    /\ err' = "KeyboardInterrupt"
    /\ UNCHANGED <<cfg, converterVars, writer, releases, created, written, loopVars,
                   topicVars, fsLog, resizeCalls>>

\* KeyboardInterrupt anywhere in the try block of main()
Interrupt ==
    /\ pc # "exit"
    /\ UNCHANGED enumVars
    /\ pc' = "exit"
    /\ exitCode' = 1
    /\ err' = "KeyboardInterrupt"
    /\ UNCHANGED <<cfg, converterVars, writer, releases, created, written, loopVars,
                   topicVars, fsLog, resizeCalls>>

Next ==
    \/ ParseArguments
    \/ ParseImageTopicPairs
    \/ Configure
    \/ OpenWriter
    \/ OpenWriterFails
    \/ RegisterTopics
    \/ WriteFile
    \/ SkipFile
    \/ FailFile
    \/ Finish
    \/ Interrupt

Spec == Init /\ [][Next]_vars

\* ------------------------------------------------------------------------
\* The file enumerator of _convert_image_to_topic (iterdir, then natsorted)
\* ------------------------------------------------------------------------
\* Every file of the directory is named <stem>.png.  The absolute path of
\* the directory is the same for all of its files and adds the same leading
\* components to every key, so the keys below begin at the file name.
Suffix == <<".", "p", "n", "g">>
FileStems ==
    {<<"a", "1">>, <<"a", "2">>, <<"a", "1", "0">>, <<"A", "1">>, <<"a", "0", "1">>,
     <<"a", " ", "1">>, <<"a", "_", "1">>, <<"1", "a">>, <<"b">>}
FileNames == {stem \o Suffix : stem \in FileStems}

\* ord(c) of the characters of the file names
Ord(c) ==
    CASE c = " " -> 32 [] c = "." -> 46 [] c = "0" -> 48 [] c = "1" -> 49 [] c = "2" -> 50
      [] c = "A" -> 65 [] c = "_" -> 95 [] c = "a" -> 97 [] c = "b" -> 98 [] c = "g" -> 103
      [] c = "n" -> 110 [] c = "p" -> 112

\* str.casefold, as ns.IGNORECASE applies it to every string it splits
Casefold(s) == [i \in 1..Len(s) |-> IF s[i] = "A" THEN "a" ELSE s[i]]

\* str.replace(' ', '_')
ReplaceSpace(s) == [i \in 1..Len(s) |-> IF s[i] = " " THEN "_" ELSE s[i]]

\* natsort's path_splitter (ns.PATH) on a file name: the name without its
\* suffix, then the suffix
path_splitter(name) ==
    <<SubSeq(name, 1, Len(name) - Len(Suffix)),
      SubSeq(name, Len(name) - Len(Suffix) + 1, Len(name))>>

\* the split of a string at its numbers (ns.REAL): the runs of digits become
\* numbers, and an empty string is put before a leading number
RECURSIVE SplitNumbers(_)
SplitNumbers(s) ==
    IF s = <<>> THEN <<>>
    ELSE LET digit == s[1] \in Digits
             same == {n \in 1..Len(s) : \A i \in 1..n : (s[i] \in Digits) = digit}
             n == CHOOSE m \in same : \A k \in same : k <= m
             run == SubSeq(s, 1, n)
             chunk == IF digit THEN [num |-> TRUE, v |-> ToInt(run)]
                      ELSE [num |-> FALSE, v |-> run]
         IN  <<chunk>> \o SplitNumbers(SubSeq(s, n + 1, Len(s)))

parse_string(s) ==
    LET chunks == SplitNumbers(Casefold(s))
    IN  IF chunks # <<>> /\ chunks[1].num
            THEN <<[num |-> FALSE, v |-> <<>>]>> \o chunks
        ELSE chunks

\* natsort's key of one string under ns.PATH | ns.IGNORECASE | ns.REAL
parse_path(s) ==
    LET parts == path_splitter(s)
    IN  [i \in 1..Len(parts) |-> parse_string(parts[i])]

\* the key natsorted sorts a file by: natsort's key of each element of
\* (str(s.absolute()).replace(' ', '_'), s.name)
natural_key(name) == <<parse_path(ReplaceSpace(name)), parse_path(name)>>

\* Python's < on strings
StrLess(s, t) ==
    \/ Len(s) < Len(t) /\ s = SubSeq(t, 1, Len(s))
    \/ \E i \in 1..Len(s) :
          /\ i <= Len(t)
          /\ SubSeq(s, 1, i - 1) = SubSeq(t, 1, i - 1)
          /\ Ord(s[i]) < Ord(t[i])

\* Python's < on two elements of a split string
ChunkLess(x, y) == IF x.num THEN x.v < y.v ELSE StrLess(x.v, y.v)

\* Python's < on tuples, for split strings, for split paths and for the
\* pairs natsorted sorts by
StringKeyLess(k, l) ==
    \/ Len(k) < Len(l) /\ k = SubSeq(l, 1, Len(k))
    \/ \E i \in 1..Len(k) :
          /\ i <= Len(l)
          /\ SubSeq(k, 1, i - 1) = SubSeq(l, 1, i - 1)
          /\ ChunkLess(k[i], l[i])

PathKeyLess(k, l) ==
    \/ Len(k) < Len(l) /\ k = SubSeq(l, 1, Len(k))
    \/ \E i \in 1..Len(k) :
          /\ i <= Len(l)
          /\ SubSeq(k, 1, i - 1) = SubSeq(l, 1, i - 1)
          /\ StringKeyLess(k[i], l[i])

KeyLess(k, l) ==
    \/ PathKeyLess(k[1], l[1])
    \/ k[1] = l[1] /\ PathKeyLess(k[2], l[2])

\* natsorted: Python's sorted() by natural_key, which is stable
RECURSIVE natsorted(_)
natsorted(files) ==
    IF files = <<>> THEN <<>>
    ELSE LET rest == natsorted(SubSeq(files, 1, Len(files) - 1))
             file == files[Len(files)]
             n == Cardinality({i \in 1..Len(rest) :
                                  ~KeyLess(natural_key(file), natural_key(rest[i]))})
         IN  SubSeq(rest, 1, n) \o <<file>> \o SubSeq(rest, n + 1, Len(rest))

\* the orders a directory listing can come in
Listings(files) ==
    {l \in SeqsUpTo(files, Cardinality(files)) : Range(l) = files /\ Len(l) = Cardinality(files)}

\* the state of main() while the enumerator is looked at alone
ConverterIdle ==
    /\ cfg = Config(<<>>, <<>>, DefaultCit, <<>>, 0, <<1, 1>>, TRUE)
    /\ pc = "register"
    /\ exitCode = -1
    /\ err = ""
    /\ pairs = <<>>
    /\ imgsz = <<>>
    /\ start = 0
    /\ rate = <<1, 1>>
    /\ camera_info_topic = DefaultCit
    /\ writer = "open"
    /\ releases = 0
    /\ created = <<>>
    /\ written = <<>>
    /\ pairIdx = 0
    /\ fileIdx = 0
    /\ image_files = <<>>
    /\ frame_id = <<>>
    /\ image_topic_name = <<>>
    /\ camera_info_topic_name = <<>>
    /\ sec = 0
    /\ nsec = 0
    /\ fsLog = <<>>
    /\ resizeCalls = <<>>

converterState ==
    <<cfg, pc, exitCode, err, pairs, imgsz, start, rate, camera_info_topic,
      writer, releases, created, written, pairIdx, fileIdx, image_files,
      frame_id, image_topic_name, camera_info_topic_name, sec, nsec,
      fsLog, resizeCalls>>

\* a directory of up to MaxListing files, not listed yet
EnumInit ==
    /\ ConverterIdle
    /\ dir_entries \in {S \in SUBSET FileNames : Cardinality(S) <= MaxListing}
    /\ listed = <<>>
    /\ enumerated = {}
    /\ enumPc = "list"

\* iterdir(): the files of the unchanged directory, in any order
ListFiles ==
    /\ enumPc = "list"
    /\ listed' \in Listings(dir_entries)
    /\ enumPc' = "sort"
    /\ UNCHANGED <<dir_entries, enumerated, converterState>>

\* natsorted(): the order the files are processed in
SortFiles ==
    /\ enumPc = "sort"
    /\ enumerated' = enumerated \cup {natsorted(listed)}
    /\ enumPc' = "list"
    /\ UNCHANGED <<dir_entries, listed, converterState>>

EnumNext ==
    \/ ListFiles
    \/ SortFiles

EnumSpec == EnumInit /\ [][EnumNext]_vars

\* ------------------------------------------------------------------------
\* Properties
\* ------------------------------------------------------------------------
\* the Image records written for pair p, in write order
ImageRecs(p) == SelectSeq(written, LAMBDA r : r.kind = "Image" /\ r.pair = p)

LessEq(a, b) == a[1] < b[1] \/ (a[1] = b[1] /\ a[2] <= b[2])

\* the cursor after k advances from the start time
RECURSIVE CursorAfter(_)
CursorAfter(k) ==
    IF k = 0 THEN split_unix_timestamp([s |-> start, n |-> 0])
    ELSE LET c == CursorAfter(k - 1)
         IN  split_unix_timestamp(NextTime(c[1], c[2], rate))

\* floor(a * 1e9 / c) for 0 <= a < c, within 32 bits
FloorNs(a, c) ==
    IF c % NsPerSec = 0 THEN a \div (c \div NsPerSec)
    ELSE a * (NsPerSec \div c) + (a * (NsPerSec % c)) \div c

\* start + k / rate, split into whole seconds and whole nanoseconds
ExactStamp(k) ==
    LET num == rate[1]
        den == rate[2]
    IN  <<start + (k * den) \div num, FloorNs((k * den) % num, num)>>

\* C1, as stated: the k-th file written for a channel pair carries the
\* timestamp start + (k-1)/rate, whatever files were skipped before it.
C1_KthStampIsExact ==
    \A p \in 1..Len(pairs) : \A k \in 1..Len(ImageRecs(p)) :
        ImageRecs(p)[k].stamp = ExactStamp(k - 1)

\* C1, amended: the k-th file written for a channel pair carries the
\* timestamp the cursor has after k-1 advances from the start time, whatever
\* files were skipped before it: a skipped file does not move the cursor, and
\* both records of a file carry the same timestamp.
C1_SkipKeepsSlot ==
    /\ \A p \in 1..Len(pairs) : \A k \in 1..Len(ImageRecs(p)) :
          ImageRecs(p)[k].stamp = CursorAfter(k - 1)
    /\ \A i \in 1..Len(written) :
          written[i].kind = "CameraInfo" =>
              /\ written[i - 1].kind = "Image"
              /\ written[i - 1].stamp = written[i].stamp
              /\ written[i - 1].file = written[i].file

\* a file was skipped and the next file of the directory was written as the
\* second record of its channel, with the timestamp one advance after start
C1_Witness ==
    \E p \in 1..Len(pairs) :
        /\ Len(ImageRecs(p)) >= 2
        /\ ImageRecs(p)[1].file = 1
        /\ ImageRecs(p)[2].file = 3
        /\ CreateMessages(cfg.directories[p].files[2]).raised \in Recoverable
        /\ ImageRecs(p)[2].stamp = CursorAfter(1)
        /\ CursorAfter(1) # CursorAfter(0)

\* the advance from stamp a to stamp b adds the whole nanoseconds of 1/rate
\* and carries at most one second out of the nanoseconds
StepOf(a, b) ==
    LET c == b[1] - a[1] - Period(rate).s
    IN  /\ c \in {0, 1}
        /\ b[2] + c * NsPerSec = a[2] + Period(rate).n

\* C6, as stated: the timestamps written for a channel pair are start,
\* start + 1/rate, start + 2/rate, ... split into (seconds, nanoseconds),
\* non-decreasing, with every nanoseconds component in [0, 1e9).
C6_StampsAreExact ==
    \A p \in 1..Len(pairs) : \A k \in 1..Len(ImageRecs(p)) :
        /\ ImageRecs(p)[k].stamp = ExactStamp(k - 1)
        /\ ImageRecs(p)[k].stamp[2] \in 0..(NsPerSec - 1)
        /\ k > 1 => LessEq(ImageRecs(p)[k - 1].stamp, ImageRecs(p)[k].stamp)

\* C6, amended: the first timestamp written for a channel pair is the start
\* time; each later one is the one before it plus 1/rate cut to whole
\* nanoseconds, with the overflow of the nanoseconds carried into the
\* seconds; the sequence is non-decreasing and every nanoseconds component
\* lies in [0, 1e9).
C6_StampsStepByPeriod ==
    \A p \in 1..Len(pairs) : \A k \in 1..Len(ImageRecs(p)) :
        /\ k = 1 => ImageRecs(p)[k].stamp = <<start, 0>>
        /\ ImageRecs(p)[k].stamp[2] \in 0..(NsPerSec - 1)
        /\ k > 1 => /\ LessEq(ImageRecs(p)[k - 1].stamp, ImageRecs(p)[k].stamp)
                    /\ StepOf(ImageRecs(p)[k - 1].stamp, ImageRecs(p)[k].stamp)

\* an advance carried a second out of the nanoseconds
C6_Witness ==
    \E p \in 1..Len(pairs) : \E k \in 2..Len(ImageRecs(p)) :
        /\ ImageRecs(p)[k].stamp[1] = ImageRecs(p)[k - 1].stamp[1] + 1
        /\ ImageRecs(p)[k].stamp[2] < ImageRecs(p)[k - 1].stamp[2]
        /\ ImageRecs(p)[k].stamp[2] > 0

\* the files of the configured directories that raise nothing, as
\* <<pair, file>> in processing order
RECURSIVE GoodFiles(_, _)
GoodFiles(p, f) ==
    IF p > Len(pairs) THEN <<>>
    ELSE IF f > Len(cfg.directories[pairs[p][1]].files) THEN GoodFiles(p + 1, 1)
    ELSE (IF CreateMessages(cfg.directories[pairs[p][1]].files[f]).raised = ""
            THEN << <<p, f>> >> ELSE <<>>) \o GoodFiles(p, f + 1)

WrittenFiles ==
    LET imgs == SelectSeq(written, LAMBDA r : r.kind = "Image")
    IN  [i \in 1..Len(imgs) |-> <<imgs[i].pair, imgs[i].file>>]

NoFatalFile ==
    \A p \in 1..Len(pairs) : \A f \in 1..Len(cfg.directories[pairs[p][1]].files) :
        CreateMessages(cfg.directories[pairs[p][1]].files[f]).raised \in Recoverable \cup {""}

\* C7: a recoverable per-file error never ends the run: no record is written
\* for the failing file, and a run whose writer was opened and that meets no
\* other error and no interrupt writes every good file of every directory and
\* ends with exit code 0.
C7_RecoverableNeverAborts ==
    /\ err \notin Recoverable
    /\ \A i \in 1..Len(written) :
          CreateMessages(cfg.directories[pairs[written[i].pair][1]].files[written[i].file]).raised = ""
    /\ (pc = "exit" /\ writer # "none" /\ err # "KeyboardInterrupt" /\ NoFatalFile) =>
          /\ exitCode = 0
          /\ WrittenFiles = GoodFiles(1, 1)

\* a run ended with exit code 0 after the first file of the first directory
\* had been skipped; the file after it and a file of the second directory
\* were written
C7_Witness ==
    /\ pc = "exit"
    /\ exitCode = 0
    /\ Len(pairs) = 2
    /\ Len(cfg.directories[1].files) = 2
    /\ CreateMessages(cfg.directories[1].files[1]).raised \in Recoverable
    /\ \E i \in 1..Len(written) : written[i].pair = 1 /\ written[i].file = 2
    /\ \E i \in 1..Len(written) : written[i].pair = 2

WellFormedSize(s) ==
    LET parts == SplitOn(s, {"x", ","})
    IN  /\ Len(parts) \in {1, 2}
        /\ \A i \in 1..Len(parts) : IsDigits(parts[i]) /\ ToInt(parts[i]) > 0

\* the configuration errors C2 lists
ConfigError ==
    \/ Len(cfg.directories) # Len(cfg.topics)
    \/ \E i \in 1..Len(cfg.directories) : ~cfg.directories[i].exists
    \/ cfg.rate[1] <= 0
    \/ (cfg.image_size # <<>> /\ ~WellFormedSize(cfg.image_size))

\* C2: in a run with a configuration error (different numbers of directories
\* and topics, a directory that does not exist, a rate of 0 or below, an
\* image size that is not one or two positive integers) the writer is never
\* opened and no channel is registered.
C2_ConfigErrorBeforeOutput ==
    ConfigError => (writer = "none" /\ created = <<>>)

\* the run ended because convert() returned
Completed == pc = "exit" /\ err = ""

\* C3, as stated: the exit code is 0 when the conversion completes and 1 on
\* every error, a rejected argument included; there is no other exit code.
C3_ExitCodeZeroOrOne ==
    pc = "exit" =>
        /\ exitCode \in {0, 1}
        /\ (exitCode = 0) = Completed

\* C3, amended: the exit code is 0 when the conversion completes, 1 on every
\* error main() catches (the count mismatch, an exception that leaves
\* convert(), a user interrupt) and 2 when the argument parser rejects an
\* argument; there is no other exit code, and none before the run ends.
C3_ExitCodes ==
    /\ pc # "exit" => exitCode = -1
    /\ pc = "exit" =>
          /\ exitCode \in {0, 1, 2}
          /\ (exitCode = 0) = Completed
          /\ (exitCode = 2) = (err = "SystemExit")
          /\ err = "SystemExit" => (~ParserAccepts /\ writer = "none")
          /\ ~ParserAccepts => err \in {"SystemExit", "KeyboardInterrupt"}

\* the argument parser rejected a rate of 0 and the run ended with exit code 2
C3_Witness ==
    /\ pc = "exit"
    /\ cfg.rate = <<0, 1>>
    /\ exitCode = 2
    /\ err = "SystemExit"

NoDuplicates(q) == \A i, j \in 1..Len(q) : q[i] = q[j] => i = j

\* C4: every record is written to a channel registered before; for two
\* directories whose topics differ in more than outer slashes, create_topic is
\* never called twice with the same name, and once both pairs are registered
\* there are four distinct channels.
C4_ChannelsCreatedOnce ==
    /\ \A i \in 1..Len(written) : written[i].topic \in Range(created)
    /\ (Len(pairs) = 2 /\ StripSlash(pairs[1][2]) # StripSlash(pairs[2][2])) =>
          /\ NoDuplicates(created)
          /\ Len(created) = 4 => Cardinality(Range(created)) = 4

\* the frame id as C5 describes it: the topic without leading and trailing
\* '/' and without its last segment, or all of it when it is one segment
DescribedFrameId(topic) ==
    LET segs == SplitSlash(StripSlash(topic))
    IN  IF Len(segs) = 1 THEN StripSlash(topic)
        ELSE JoinSlash(SubSeq(segs, 1, Len(segs) - 1))

\* C5: the calibration channel registered for a topic (here: every topic
\* without empty segments) is named, below the root, frame_id(topic) + "/" +
\* camera_info_topic, for every camera-info topic the option accepts.
C5_CalibrationChannelName ==
    \A i \in 1..Len(created) :
        (i % 2 = 0 /\ <<>> \notin Range(SplitSlash(StripSlash(pairs[i \div 2][2])))) =>
            created[i] = <<"/">> \o DescribedFrameId(pairs[i \div 2][2])
                            \o <<"/">> \o camera_info_topic

\* the accesses to the file system that the argument parser makes
ParserAccess == {<<"creatable">>} \cup {<<"is_dir", i>> : i \in 1..Len(cfg.directories)}

CountMismatch == Len(cfg.directories) # Len(cfg.topics)

\* C9, as stated: when the numbers of directories and topics differ, nothing
\* has looked at the file system by the time the mismatch is reported.
C9_MismatchBeforeAnyAccess ==
    (CountMismatch /\ err = "ValueError") => fsLog = <<>>

\* C9, amended: when the numbers of directories and topics differ, the
\* mismatch is reported before any directory is listed, any file is opened
\* and the writer is opened; the only accesses to the file system before it
\* are the argument parser's checks that each directory exists and that the
\* output path can be created.
C9_MismatchBeforeListing ==
    CountMismatch =>
        /\ Range(fsLog) \subseteq ParserAccess
        /\ writer = "none"
        /\ pc \in {"parse", "pairs", "exit"}
        /\ err = "ValueError" => fsLog = ChecksDone

\* two directories and three topics: the mismatch was reported after the
\* parser had checked both directories and the output path
C9_Witness ==
    /\ Len(cfg.directories) = 2
    /\ Len(cfg.topics) = 3
    /\ pc = "exit"
    /\ err = "ValueError"
    /\ exitCode = 1
    /\ fsLog = <<<<"is_dir", 1>>, <<"is_dir", 2>>, <<"creatable">>>>

BothNonPositive(size) == size[1] <= 0 /\ size[2] <= 0

\* C10: an accepted image size never has both components <= 0, and
\* resize_image is never called with such a size.
C10_OneDimensionAuto ==
    /\ imgsz # <<>> => ~BothNonPositive(imgsz)
    /\ \A i \in 1..Len(resizeCalls) : ~BothNonPositive(resizeCalls[i])

\* file x is processed before file y
Before(order, x, y) ==
    \E i, j \in 1..Len(order) : i < j /\ order[i] = x /\ order[j] = y

\* C11: the order the files of a directory are processed in depends only on
\* the set of file names, not on the order the listing returns them in (also
\* for names that differ only by letter case or by space versus underscore),
\* and a1.png, a2.png, a10.png are processed in that order.
C11_OrderIndependentOfListing ==
    /\ Cardinality(enumerated) <= 1
    /\ \A order \in enumerated :
          \A p \in {<<<<"a", "1">>, <<"a", "2">>>>, <<<<"a", "2">>, <<"a", "1", "0">>>>,
                    <<<<"a", "1">>, <<"a", "1", "0">>>>} :
              ({p[1] \o Suffix, p[2] \o Suffix} \subseteq Range(order)) =>
                  Before(order, p[1] \o Suffix, p[2] \o Suffix)

\* the CameraInfo records written so far
CameraInfos == {written[i] : i \in {j \in 1..Len(written) : written[j].kind = "CameraInfo"}}

\* the matrices every calibration has in common, given its intrinsic matrix
CalibrationShape(c) ==
    /\ c.d = <<Frac(0, 1), Frac(0, 1), Frac(0, 1), Frac(0, 1), Frac(0, 1)>>
    /\ c.r = <<Frac(1, 1), Frac(0, 1), Frac(0, 1), Frac(0, 1), Frac(1, 1), Frac(0, 1),
               Frac(0, 1), Frac(0, 1), Frac(1, 1)>>
    /\ c.p = <<c.k[1], c.k[2], c.k[3], Frac(0, 1), c.k[4], c.k[5], c.k[6], Frac(0, 1),
               c.k[7], c.k[8], c.k[9], Frac(0, 1)>>
    /\ \A i \in {2, 4, 7, 8} : c.k[i] = Frac(0, 1)
    /\ c.k[9] = Frac(1, 1)

\* C12, as stated: for every written size (width, height) the intrinsic
\* matrix has focal_x = width, focal_y = width / (height / width) and the
\* principal point (width / 2, height / 2); the projection is the intrinsic
\* matrix with a zero column, the rotation the identity, the distortion zero.
C12_FocalYIsWidthOverAspect ==
    \A rec \in CameraInfos :
        /\ CalibrationShape(rec.calibration)
        /\ rec.calibration.k[1] = Frac(rec.size[1], 1)
        /\ rec.calibration.k[3] = Frac(rec.size[1], 2)
        /\ rec.calibration.k[6] = Frac(rec.size[2], 2)
        /\ rec.calibration.k[5] = Frac(rec.size[1] * rec.size[1], rec.size[2])

\* C12, amended: as above, but focal_y = height / (height / width), which
\* is the width.
C12_FocalYIsHeightOverAspect ==
    \A rec \in CameraInfos :
        /\ rec.size[1] > 0 /\ rec.size[2] > 0
        /\ CalibrationShape(rec.calibration)
        /\ rec.calibration.k[1] = Frac(rec.size[1], 1)
        /\ rec.calibration.k[3] = Frac(rec.size[1], 2)
        /\ rec.calibration.k[6] = Frac(rec.size[2], 2)
        /\ rec.calibration.k[5] = Frac(rec.size[2] * rec.size[1], rec.size[2])
        /\ rec.calibration.k[5] = Frac(rec.size[1], 1)

\* a calibration was written for an image that was resized to a size whose
\* width and height differ
C12_Witness ==
    \E i \in 1..Len(written) :
        /\ written[i].kind = "CameraInfo"
        /\ resizeCalls # <<>>
        /\ written[i].size # cfg.directories[written[i].pair].files[written[i].file].size
        /\ written[i].size[1] # written[i].size[2]
        /\ written[i].calibration.k[5] = Frac(written[i].size[1], 1)

\* C13: every channel pair has its own cursor, seeded from the configured
\* start time: whatever earlier pairs wrote or skipped, the first record
\* written for a pair carries the start time, the cursor of a pair that has
\* written nothing yet is the start time, and the k-th timestamp of a pair
\* is the k-th timestamp of every other pair.
C13_CursorPerPair ==
    /\ \A p \in 1..Len(pairs) :
          ImageRecs(p) # <<>> => ImageRecs(p)[1].stamp = <<start, 0>>
    /\ (pc = "file" /\ ImageRecs(pairIdx) = <<>>) => <<sec, nsec>> = <<start, 0>>
    /\ \A p, q \in 1..Len(pairs) :
          \A k \in 1..Len(ImageRecs(p)) :
              k <= Len(ImageRecs(q)) => ImageRecs(p)[k].stamp = ImageRecs(q)[k].stamp

\* the first pair skipped a file and wrote one, which moved its cursor past
\* the start time, and the second pair has written its first record
C13_Witness ==
    /\ Len(pairs) = 2
    /\ Len(cfg.directories[1].files) = 2
    /\ CreateMessages(cfg.directories[1].files[1]).raised \in Recoverable
    /\ Len(ImageRecs(1)) = 1
    /\ CursorAfter(1) # <<start, 0>>
    /\ Len(ImageRecs(2)) >= 1
    /\ ImageRecs(2)[1].stamp = <<start, 0>>

====
